---- MODULE Spec2Model ----
(***************************************************************************)
(* turtle-express, core/create-handler.ts: the request handler returned by *)
(* createHandler.  One handler invocation is a task that runs the five     *)
(* stages guard, request validation, resolver, resolver validation and     *)
(* send response.  A task suspends only where the code awaits (the guard,   *)
(* the resolver); everything between two awaits is one atomic step of the  *)
(* event loop.  The scratch context the stages write to is the `context`   *)
(* member of the imported module-level object handlerFuncSteps.            *)
(*                                                                         *)
(* JavaScript values are records: a scalar is [v |-> "..."], the request   *)
(* validation error object is [params |-> .., query |-> .., body |-> ..].  *)
(***************************************************************************)
EXTENDS Integers, FiniteSets, Sequences, TLC

VARIABLES context, tasks, started

vars == <<context, tasks, started>>

(* ------------------------------ bounds --------------------------------- *)

\* Number of requests handled in one behaviour (earlier requests are history).
MaxRequests == 2

\* The tasks (handler invocations) that can be in flight at the same time.
Tasks == {1, 2}

(* ------------------------------ values --------------------------------- *)

V(s) == [v |-> s]

Undefined == V("undefined")

Null == V("null")

\* What a request carries in req.params / req.query / req.body: "a"
\* satisfies the schema, "bad" does not, "boom" makes the validator throw.
FieldInputs == {"a", "bad", "boom"}

\* What a guard returns as `response`.
GuardResponses == {"no token"}

\* `pass` as returned by a guard: true, false, or a falsy value that is not
\* the boolean false (undefined, 0, "", null).
GuardPasses == {"true", "false", "undefined"}

\* The payload a resolver returns under its status-code key.
Payloads == {"a", "bad", "boom"}

\* The property names a resolver uses as status-code key.
StatusKeys == {"200", "400", "404"}

Fields == {"params", "query", "body"}

(* ------------------------ external collaborators ----------------------- *)

\* zod: schema.safeParse(input).  The schemas of the model accept "a" and
\* "b" and transform them (to "A" and "B"); every other input is rejected
\* with a ZodError that remembers the input.  The input "boom" makes the
\* validator throw instead of returning a result.
Transformed(x) == IF x = V("a") THEN V("A") ELSE IF x = V("b") THEN V("B") ELSE x

Throws(x) == x = V("boom")

safeParse(x) ==
    IF x \in {V("a"), V("b")}
    THEN [success |-> "true", data |-> Transformed(x), error |-> Undefined]
    ELSE [success |-> "false", data |-> Undefined, error |-> [zod |-> x]]

\* zod: ZodError.format().
format(e) == [formatted |-> e]

\* An Error object, named by where it was thrown.
Err(s) == [error |-> s]

NoError == Err("none")

ConfigurationError ==
    Err("The controlled resolver function needs at least one response schema.")

TypeError == Err("TypeError")

(* ------------------------------ step table ----------------------------- *)

\* handlerFuncSteps.steps: the five stages and their named transitions.
steps ==
    [S001 |-> [name |-> "guard",
               on |-> [GUARD_PASSED |-> "request_validation",
                       GUARD_FAILED |-> "send_response",
                       GUARD_SKIPPED |-> "request_validation"]],
     S002 |-> [name |-> "request_validation",
               on |-> [REQUEST_VALIDATION_SKIPPED |-> "resolver",
                       REQUEST_VALIDATION_PASSED |-> "resolver",
                       REQUEST_VALIDATION_FAILED |-> "send_response"]],
     S003 |-> [name |-> "resolver",
               on |-> [RESOLVER_DONE |-> "resolver_validation"]],
     S004 |-> [name |-> "resolver_validation",
               on |-> [RESOLVER_VALIDATION_DONE |-> "send_response"]],
     S005 |-> [name |-> "send_response"]]

\* A validation result nothing has been parsed into yet.
InitValidation == [success |-> "true", data |-> Undefined, error |-> Undefined]

\* A resolver result is a mapping from status-code keys to payloads.
EmptyResult == [k \in {} |-> Undefined]

SingleKey(key, payload) == [k \in {key} |-> payload]

\* handlerFuncSteps.context as the module is loaded.
InitContext ==
    [guardResult |-> [pass |-> "undefined", response |-> Undefined],
     paramsValidation |-> InitValidation,
     queryValidation |-> InitValidation,
     bodyValidation |-> InitValidation,
     requestValidation |->
         [pass |-> "undefined",
          response |-> [params |-> InitValidation,
                        query |-> InitValidation,
                        body |-> InitValidation]],
     resolverResult |-> EmptyResult,
     resolverValidation |-> InitValidation,
     responseInit |-> [statusCode |-> 0, success |-> "undefined",
                       message |-> "", data |-> Undefined, error |-> Undefined]]

(* ------------------------------- routes -------------------------------- *)

\* The status codes a route can declare a response schema for.
StatusCodes == {200, 400, 404}

\* createHandler(options): guard given or not, the request schemas given,
\* the status codes of the response map (none when `response` is not given),
\* uncontrolledResolver, and the context seed.
RouteDeclarations ==
    [guard : BOOLEAN,
     schemas : SUBSET Fields,
     response : {{}, {200}, {200, 400, 404}},
     uncontrolledResolver : BOOLEAN,
     context : {V("seed")}]

\* The routes of the application: a controlled route without guard for every
\* set of request schemas, guarded controlled routes whose response map lacks
\* some status codes, a controlled route without response map, and
\* uncontrolled routes without response map.
Routes ==
    {r \in RouteDeclarations :
        \/ ~r.guard /\ ~r.uncontrolledResolver /\ r.response = {200, 400, 404}
        \/ r.guard /\ ~r.uncontrolledResolver /\ r.response = {200} /\ r.schemas \in {{}, {"body"}}
        \/ ~r.guard /\ ~r.uncontrolledResolver /\ r.response = {} /\ r.schemas = {}
        \/ ~r.guard /\ r.uncontrolledResolver /\ r.response = {} /\ r.schemas = {}
        \/ r.guard /\ r.uncontrolledResolver /\ r.response = {} /\ r.schemas = {"params"}}

\* The express request: a field the route has no schema for is never read,
\* so it carries one value.
Requests(route) ==
    [params : IF "params" \in route.schemas THEN {V(x) : x \in FieldInputs} ELSE {V("a")},
     query : IF "query" \in route.schemas THEN {V(x) : x \in FieldInputs} ELSE {V("a")},
     body : IF "body" \in route.schemas THEN {V(x) : x \in FieldInputs} ELSE {V("a")}]

(* ------------------------------- tasks --------------------------------- *)

NoCtx == [none |-> TRUE]

NoStatus == -2

NoBody == [none |-> TRUE]

\* One handler invocation: where it is suspended, its route and request, and
\* what it has done to the outside: the calls it made in order (trace), the
\* arguments the resolver got, the status it set, the body it sent and the
\* errors it gave to next; thrown lists the exceptions raised inside it.
IdleTask ==
    [pc |-> "idle",
     route |-> [guard |-> FALSE, schemas |-> {}, response |-> {},
                uncontrolledResolver |-> FALSE, context |-> V("seed")],
     req |-> [params |-> V("a"), query |-> V("a"), body |-> V("a")],
     trace |-> <<>>,
     ctx |-> NoCtx,
     guardReturned |-> [pass |-> "undefined", response |-> Undefined],
     resolverReturned |-> EmptyResult,
     statusCode |-> NoStatus,
     sent |-> NoBody,
     thrown |-> <<>>,
     nextCalls |-> <<>>]

\* The running handler between two awaits: the shared context c, the task t,
\* the locals currentStep and prevStep, the exception thrown (if any) and
\* whether the handler goes on ("run"), is suspended in an await or returned.
Machine(c, t) ==
    [c |-> c, t |-> t,
     currentStep |-> steps.S001.name, prevStep |-> steps.S001.name,
     threw |-> NoError, at |-> "run"]

Running(m) == m.at = "run" /\ m.threw = NoError

Did(m, what) == [m EXCEPT !.t.trace = Append(@, what)]

\* An exception (or a rejected await) inside the handler's promise chain.
Throw(m, e) == [m EXCEPT !.threw = e, !.t.thrown = Append(@, e)]

(* ------------------------- javascript helpers -------------------------- *)

NaN == -1

\* parseInt of a property name; parseInt(undefined) is NaN.
parseInt(k) ==
    CASE k = "200" -> 200
      [] k = "400" -> 400
      [] k = "404" -> 404
      [] OTHER -> NaN

\* The property name a number is looked up under.
ToPropertyKey(n) ==
    CASE n = 200 -> "200"
      [] n = 400 -> "400"
      [] n = 404 -> "404"
      [] OTHER -> "NaN"

\* Object.keys(result): integer-like keys come in ascending numeric order.
RECURSIVE KeysInOrder(_)
KeysInOrder(S) ==
    IF S = {} THEN <<>>
    ELSE LET k == CHOOSE x \in S : \A y \in S : parseInt(x) <= parseInt(y)
         IN <<k>> \o KeysInOrder(S \ {k})

ObjectKeys(result) == KeysInOrder(DOMAIN result)

\* parseInt(Object.keys(result)[0])
FirstEntryKey(result) ==
    IF ObjectKeys(result) = <<>> THEN parseInt("undefined")
    ELSE parseInt(ObjectKeys(result)[1])

\* result[firstEntryKey]
Entry(result, n) ==
    IF ToPropertyKey(n) \in DOMAIN result THEN result[ToPropertyKey(n)] ELSE Undefined

\* x < 400 and x >= 400 are both false of NaN.
LessThan400(n) == n # NaN /\ n < 400

AtLeast400(n) == n # NaN /\ n >= 400

(* ------------------------------- stage 1 ------------------------------- *)

GuardCall_SkipFails(m) ==
    IF ~(Running(m) /\ m.currentStep = steps.S001.name) THEN m
    ELSE IF m.t.route.guard
    THEN Did([m EXCEPT !.prevStep = steps.S001.name, !.at = "await_guard"], "guard")
    ELSE [m EXCEPT !.prevStep = steps.S001.name,
                   !.currentStep = steps.S001.on.GUARD_FAILED]

\* The guard stage up to the await: the guard is called, or the stage is
\* skipped.
GuardCall(m) ==
    IF ~(Running(m) /\ m.currentStep = steps.S001.name) THEN m
    ELSE IF m.t.route.guard
    THEN Did([m EXCEPT !.prevStep = steps.S001.name, !.at = "await_guard"], "guard")
    ELSE [m EXCEPT !.prevStep = steps.S001.name,
                   !.currentStep = steps.S001.on.GUARD_SKIPPED]

GuardSettled_AlwaysPasses(m, rejected, result) ==
    IF rejected THEN Throw(m, Err("guard"))
    ELSE [m EXCEPT !.c.guardResult = result,
                   !.t.guardReturned = result,
                   !.currentStep = steps.S001.on.GUARD_PASSED]

\* The guard stage after the await: the guard rejected (or threw), or its
\* result is stored and `pass` picks the transition.
GuardSettled(m, rejected, result) ==
    IF rejected THEN Throw(m, Err("guard"))
    ELSE [m EXCEPT !.c.guardResult = result,
                   !.t.guardReturned = result,
                   !.currentStep = IF result.pass = "true"
                                   THEN steps.S001.on.GUARD_PASSED
                                   ELSE steps.S001.on.GUARD_FAILED]

(* ------------------------------- stage 2 ------------------------------- *)

\* One `if (schema) context.<field>Validation = schema.safeParse(req.<field>)`.
ParseField(m, f) ==
    IF ~Running(m) \/ f \notin m.t.route.schemas THEN m
    ELSE IF Throws(m.t.req[f]) THEN Throw(Did(m, f), Err(f))
    ELSE LET r == safeParse(m.t.req[f])
         IN Did(CASE f = "params" -> [m EXCEPT !.c.paramsValidation = r]
                  [] f = "query" -> [m EXCEPT !.c.queryValidation = r]
                  [] f = "body" -> [m EXCEPT !.c.bodyValidation = r], f)

\* The outcome of the parsed fields: the transition, requestValidation.pass
\* and requestValidation.response.
Aggregate(m) ==
    IF ~Running(m) THEN m
    ELSE LET validationFailed ==
                 \E v \in {m.c.paramsValidation.success,
                           m.c.queryValidation.success,
                           m.c.bodyValidation.success} : v = "false"
         IN [m EXCEPT
                !.currentStep = IF validationFailed
                                THEN steps.S002.on.REQUEST_VALIDATION_FAILED
                                ELSE steps.S002.on.REQUEST_VALIDATION_PASSED,
                !.c.requestValidation =
                    [pass |-> IF validationFailed THEN "false" ELSE "true",
                     response |-> [params |-> m.c.paramsValidation,
                                   query |-> m.c.queryValidation,
                                   body |-> m.c.bodyValidation]]]

RequestValidation_UncontrolledSkips(m) ==
    IF ~(Running(m) /\ m.currentStep = steps.S002.name) THEN m
    ELSE LET m0 == [m EXCEPT !.prevStep = steps.S002.name]
         IN IF m0.t.route.schemas = {} \/ m0.t.route.uncontrolledResolver
            THEN [m0 EXCEPT !.currentStep = steps.S002.on.REQUEST_VALIDATION_SKIPPED]
            ELSE Aggregate(ParseField(ParseField(ParseField(m0, "params"), "query"), "body"))

\* Stage 2: skipped when the route has no request schema; else every
\* configured field is parsed and the outcome aggregated.
RequestValidation(m) ==
    IF ~(Running(m) /\ m.currentStep = steps.S002.name) THEN m
    ELSE LET m0 == [m EXCEPT !.prevStep = steps.S002.name]
         IN IF m0.t.route.schemas = {}
            THEN [m0 EXCEPT !.currentStep = steps.S002.on.REQUEST_VALIDATION_SKIPPED]
            ELSE Aggregate(ParseField(ParseField(ParseField(m0, "params"), "query"), "body"))

(* ------------------------------- stage 3 ------------------------------- *)

\* { ...optContext, params: response.params?.data, query: .., body: .. }
BuildCtx(m) ==
    [seed |-> m.t.route.context,
     params |-> m.c.requestValidation.response.params.data,
     query |-> m.c.requestValidation.response.query.data,
     body |-> m.c.requestValidation.response.body.data]

\* The resolver stage up to the await: ctx is built and the resolver called,
\* with res as well when the route is uncontrolled.
ResolverCall(m) ==
    IF ~(Running(m) /\ m.currentStep = steps.S003.name) THEN m
    ELSE Did([m EXCEPT !.prevStep = steps.S003.name,
                       !.t.ctx = BuildCtx(m),
                       !.at = "await_resolver"],
             IF m.t.route.uncontrolledResolver THEN "resolver(ctx,req,res)"
             ELSE "resolver(ctx,req)")

ResolverSettled_AlwaysControlled(m, rejected, result) ==
    IF rejected THEN Throw(m, Err("resolver"))
    ELSE [m EXCEPT !.c.resolverResult = result,
                   !.t.resolverReturned = result,
                   !.currentStep = steps.S003.on.RESOLVER_DONE]

\* The resolver stage after the await.  Uncontrolled: the handler returns
\* what the resolver returned.  Controlled: the result is stored.
ResolverSettled(m, rejected, result) ==
    IF rejected THEN Throw(m, Err("resolver"))
    ELSE IF m.t.route.uncontrolledResolver
    THEN [m EXCEPT !.at = "returned"]
    ELSE [m EXCEPT !.c.resolverResult = result,
                   !.t.resolverReturned = result,
                   !.currentStep = steps.S003.on.RESOLVER_DONE]

(* ------------------------------- stage 4 ------------------------------- *)

MissingSchema_Inverted(route, firstEntryKey) ==
    route.uncontrolledResolver = TRUE /\ firstEntryKey \notin route.response

\* uncontrolledResolver === false && response?.[firstEntryKey] === undefined
MissingSchema(route, firstEntryKey) ==
    route.uncontrolledResolver = FALSE /\ firstEntryKey \notin route.response

ResolverValidation(m) ==
    IF ~(Running(m) /\ m.currentStep = steps.S004.name) THEN m
    ELSE LET result == m.c.resolverResult
             firstEntryKey == FirstEntryKey(result)
             firstEntry == Entry(result, firstEntryKey)
             m0 == [m EXCEPT !.prevStep = steps.S004.name]
         IN IF MissingSchema(m.t.route, firstEntryKey)
            THEN Throw(m0, ConfigurationError)
            ELSE IF Throws(firstEntry)
            THEN Throw(Did(m0, "response"), Err("response"))
            ELSE Did([m0 EXCEPT !.c.resolverValidation = safeParse(firstEntry),
                                !.currentStep = steps.S004.on.RESOLVER_VALIDATION_DONE],
                     "response")

(* ------------------------------- stage 5 ------------------------------- *)

GuardFailedInit_NullError(m) ==
    [m EXCEPT !.c.responseInit =
        [statusCode |-> 401, success |-> "false", message |-> "Unauthorized.",
         data |-> Null, error |-> Null]]

\* 5.1: the 401 of a failed guard.
GuardFailedInit(m) ==
    [m EXCEPT !.c.responseInit =
        [statusCode |-> 401, success |-> "false", message |-> "Unauthorized.",
         data |-> Null, error |-> m.c.guardResult.response]]

FieldError_Always(validation) == format(validation.error)

\* One member of the error of 5.2; format() of a missing error is a TypeError.
FieldError(validation) ==
    IF validation.success = "true" THEN Null ELSE format(validation.error)

FieldErrorThrows(validation) ==
    validation.success # "true" /\ validation.error = Undefined

\* 5.2: the 400 of a failed request validation.
ValidationFailedInit(m) ==
    LET r == m.c.requestValidation.response
    IN IF \E f \in Fields : FieldErrorThrows(r[f])
       THEN Throw(m, TypeError)
       ELSE [m EXCEPT !.c.responseInit =
                [statusCode |-> 400, success |-> "false",
                 message |-> "Validation Failed.", data |-> Null,
                 error |-> [params |-> FieldError(r.params),
                            query |-> FieldError(r.query),
                            body |-> FieldError(r.body)]]]

ValidationOverride_AnyStatus(statusCode, success) == success = "false"

ValidationOverride_WrongFlag(statusCode, success) ==
    LessThan400(statusCode) /\ success = "true"

\* statusCode < 400 && resolverValidation.success === false
ValidationOverride(statusCode, success) ==
    LessThan400(statusCode) /\ success = "false"

FailedMessage_WrongFlag(statusCode, success) ==
    success = "false" /\ AtLeast400(statusCode)

\* resolverValidation.success === true && statusCode >= 400
FailedMessage(statusCode, success) ==
    success = "true" /\ AtLeast400(statusCode)

ResponseData_Raw(result, validation) ==
    IF validation.success = "true" THEN Entry(result, FirstEntryKey(result)) ELSE Null

\* data: resolverValidation.success === true ? resolverValidation.data : null
ResponseData(result, validation) ==
    IF validation.success = "true" THEN validation.data ELSE Null

\* 5.3: the response made of the resolver's result and its validation.
ResolverInit(m) ==
    LET result == m.c.resolverResult
        resolverValidation == m.c.resolverValidation
        key == FirstEntryKey(result)
        override == ValidationOverride(key, resolverValidation.success)
        failed == ~override /\ FailedMessage(key, resolverValidation.success)
    IN IF FieldErrorThrows(resolverValidation)
       THEN Throw(m, TypeError)
       ELSE [m EXCEPT !.c.responseInit =
                [statusCode |-> IF override THEN 400 ELSE key,
                 success |-> resolverValidation.success,
                 message |-> IF override THEN "Response validation failed."
                             ELSE IF failed THEN "Failed." ELSE "Success.",
                 data |-> ResponseData(result, resolverValidation),
                 error |-> FieldError(resolverValidation)]]

SendResponse(m) ==
    IF ~(Running(m) /\ m.currentStep = steps.S005.name) THEN m
    ELSE IF m.prevStep = steps.S001.name /\ m.c.guardResult.pass = "false"
    THEN GuardFailedInit(m)
    ELSE IF m.prevStep = steps.S002.name
    THEN ValidationFailedInit(m)
    ELSE ResolverInit(m)

Send_Twice(m) ==
    IF ~Running(m) THEN m
    ELSE Throw(Did(Did([m EXCEPT !.t.statusCode = m.c.responseInit.statusCode,
                                 !.t.sent = [success |-> m.c.responseInit.success,
                                             message |-> m.c.responseInit.message,
                                             data |-> m.c.responseInit.data,
                                             error |-> m.c.responseInit.error]],
                       "status"), "send"), Err("ERR_HTTP_HEADERS_SENT"))

\* res.status(responseInit.statusCode); return res.send({success, message, data, error})
\* res.status stores any value; res.send throws when node is to write a
\* status code that is no number.
Send(m) ==
    IF ~Running(m) THEN m
    ELSE IF m.c.responseInit.statusCode = NaN
    THEN Throw(Did([m EXCEPT !.t.statusCode = NaN], "status"), Err("RangeError"))
    ELSE Did(Did([m EXCEPT !.t.statusCode = m.c.responseInit.statusCode,
                           !.t.sent = [success |-> m.c.responseInit.success,
                                       message |-> m.c.responseInit.message,
                                       data |-> m.c.responseInit.data,
                                       error |-> m.c.responseInit.error],
                           !.at = "returned"],
                 "status"), "send")

Catch_DropsRejections(m) ==
    IF m.threw = NoError THEN m
    ELSE IF m.threw \in {Err("guard"), Err("resolver")}
    THEN [m EXCEPT !.threw = NoError, !.at = "returned"]
    ELSE Did([m EXCEPT !.t.nextCalls = Append(@, m.threw),
                       !.threw = NoError, !.at = "returned"], "next")

Catch_Swallow(m) ==
    IF m.threw = NoError THEN m
    ELSE [m EXCEPT !.threw = NoError, !.at = "returned"]

\* .catch(next)
Catch(m) ==
    IF m.threw = NoError THEN m
    ELSE Did([m EXCEPT !.t.nextCalls = Append(@, m.threw),
                       !.threw = NoError, !.at = "returned"], "next")

\* The handler from wherever it is to its next await or its end.
Pipeline(m) ==
    Catch(Send(SendResponse(ResolverValidation(ResolverCall(RequestValidation(m))))))

\* The task as the handler leaves it.
Settle(m) ==
    [m.t EXCEPT !.pc = CASE m.at = "await_guard" -> "guard"
                         [] m.at = "await_resolver" -> "resolver"
                         [] OTHER -> "done"]

(* ------------------------------- actions ------------------------------- *)

\* A finished request is seen by its client before the event loop runs the
\* next piece of a handler.
NoneDone == \A t \in Tasks : tasks[t].pc # "done"

Init ==
    /\ context = InitContext
    /\ tasks = [t \in Tasks |-> IdleTask]
    /\ started = 0

\* express calls handler(req, res, next) of a route: the handler runs to its
\* first await.  The request takes the first free task.
Handle(t, route, req) ==
    /\ tasks[t].pc = "idle"
    /\ \A u \in Tasks : u < t => tasks[u].pc # "idle"
    /\ NoneDone
    /\ started < MaxRequests
    /\ LET m == Pipeline(GuardCall(Machine(context,
                    [IdleTask EXCEPT !.route = route, !.req = req])))
       IN /\ context' = m.c
          /\ tasks' = [tasks EXCEPT ![t] = Settle(m)]
    /\ started' = started + 1

\* The promise of the guard settles and the handler goes on.
GuardSettles(t, rejected, result) ==
    /\ tasks[t].pc = "guard"
    /\ NoneDone
    /\ LET m == Pipeline(GuardSettled(Machine(context, tasks[t]), rejected, result))
       IN /\ context' = m.c
          /\ tasks' = [tasks EXCEPT ![t] = Settle(m)]
    /\ UNCHANGED started

\* The promise of the resolver settles and the handler goes on.
ResolverSettles(t, rejected, result) ==
    /\ tasks[t].pc = "resolver"
    /\ NoneDone
    /\ LET m == Pipeline(ResolverSettled(
                    [Machine(context, tasks[t]) EXCEPT
                        !.currentStep = steps.S003.name,
                        !.prevStep = steps.S003.name], rejected, result))
       IN /\ context' = m.c
          /\ tasks' = [tasks EXCEPT ![t] = Settle(m)]
    /\ UNCHANGED started

\* The request is over; nothing of the task is kept.
Forget(t) ==
    /\ tasks[t].pc = "done"
    /\ tasks' = [tasks EXCEPT ![t] = IdleTask]
    /\ UNCHANGED <<context, started>>

\* What the promise of a guard settles with: a rejection, or {pass, response}.
GuardOutcomes ==
    {[rejected |-> TRUE, value |-> IdleTask.guardReturned]}
    \cup [rejected : {FALSE},
          value : [pass : GuardPasses, response : {V(x) : x \in GuardResponses}]]

\* What the promise of a resolver settles with: a rejection, or a mapping
\* with one status-code key.
ResolverOutcomes ==
    {[rejected |-> TRUE, value |-> EmptyResult]}
    \cup [rejected : {FALSE},
          value : {SingleKey(k, V(p)) : k \in StatusKeys, p \in Payloads}]

Next ==
    \/ \E t \in Tasks, route \in Routes : \E req \in Requests(route) : Handle(t, route, req)
    \/ \E t \in Tasks, o \in GuardOutcomes : GuardSettles(t, o.rejected, o.value)
    \/ \E t \in Tasks, o \in ResolverOutcomes : ResolverSettles(t, o.rejected, o.value)
    \/ \E t \in Tasks : Forget(t)

Spec == Init /\ [][Next]_vars

\* The promise of the guard, or of the resolver, of task t settles somehow.
GuardSettlesSomehow(t) == \E o \in GuardOutcomes : GuardSettles(t, o.rejected, o.value)

ResolverSettlesSomehow(t) ==
    \E o \in ResolverOutcomes : ResolverSettles(t, o.rejected, o.value)

\* The event loop: a response that was sent, or an error given to next, is
\* delivered, and the continuation of a settled promise is run.  Whether a
\* guard or a resolver settles at all is up to the caller's code.
\* The routes with an await to hang in: a guarded controlled route, a
\* guarded uncontrolled route and a controlled route without guard.
LiveRoutes ==
    {r \in Routes :
        \/ r.guard /\ r.schemas # {"body"}
        \/ ~r.guard /\ ~r.uncontrolledResolver /\ r.schemas = {} /\ r.response # {}}

LiveNext ==
    \/ \E t \in Tasks, route \in LiveRoutes : \E req \in Requests(route) : Handle(t, route, req)
    \/ \E t \in Tasks : GuardSettlesSomehow(t)
    \/ \E t \in Tasks : ResolverSettlesSomehow(t)
    \/ \E t \in Tasks : Forget(t)

LiveSpec == Init /\ [][LiveNext]_vars /\ \A t \in Tasks : WF_vars(Forget(t))

(* ------------------------------- claims -------------------------------- *)

Events(t) == {tasks[t].trace[i] : i \in DOMAIN tasks[t].trace}

ValidatorEvents == Fields \cup {"response"}

ResolverEvents == {"resolver(ctx,req)", "resolver(ctx,req,res)"}

\* The guard stage let the request through to request validation.
PastGuard(t) ==
    /\ tasks[t].pc # "idle"
    /\ ~tasks[t].route.guard \/ tasks[t].guardReturned.pass = "true"

\* What the request's own fields parse to.
OwnValidation(t, f) == safeParse(tasks[t].req[f])

\* The resolver of a controlled route returned {key: payload}.
Returned(t, key, payload) ==
    /\ ~tasks[t].route.uncontrolledResolver
    /\ tasks[t].resolverReturned = SingleKey(key, payload)

\* C1: a request whose guard returns pass = false gets status 401 and exactly
\* {success:false, message:"Unauthorized.", data:null, error:<the guard's
\* response>}; no request validator and no resolver is invoked for it.
C1_GuardFailedSends401 ==
    \A t \in Tasks :
        tasks[t].guardReturned.pass = "false" =>
            /\ tasks[t].pc = "done"
            /\ tasks[t].statusCode = 401
            /\ tasks[t].sent = [success |-> "false", message |-> "Unauthorized.",
                                data |-> Null,
                                error |-> tasks[t].guardReturned.response]
            /\ Events(t) \cap (ValidatorEvents \cup ResolverEvents) = {}
            /\ tasks[t].trace = <<"guard", "status", "send">>
            /\ tasks[t].nextCalls = <<>>

C1_Witness ==
    \E t \in Tasks :
        /\ tasks[t].guardReturned.pass = "false"
        /\ tasks[t].route.schemas # {}
        /\ ~tasks[t].route.uncontrolledResolver
        /\ tasks[t].statusCode = 401

\* The error of the 400 of a failed request validation, from the request's
\* own fields: null for a field that parsed or has no schema.
OwnFieldError(t, f) ==
    IF f \in tasks[t].route.schemas /\ OwnValidation(t, f).success = "false"
    THEN format(OwnValidation(t, f).error)
    ELSE Null

\* C2: when at least one configured schema among params/query/body fails on
\* its request field, the handler sends status 400 with success false,
\* message "Validation Failed.", data null and error {params, query, body},
\* each member null if the field parsed or has no schema and the formatted
\* error if it failed, whatever subset of schemas is configured.
C2_ValidationFailedEnvelope ==
    \A t \in Tasks :
        ( /\ tasks[t].pc = "done"
          /\ PastGuard(t)
          /\ \A f \in tasks[t].route.schemas : ~Throws(tasks[t].req[f])
          /\ \E f \in tasks[t].route.schemas : OwnValidation(t, f).success = "false" )
        => /\ tasks[t].statusCode = 400
           /\ tasks[t].sent = [success |-> "false", message |-> "Validation Failed.",
                               data |-> Null,
                               error |-> [params |-> OwnFieldError(t, "params"),
                                          query |-> OwnFieldError(t, "query"),
                                          body |-> OwnFieldError(t, "body")]]

\* The status code of the resolver's result has no response schema.
Undeclared(t) ==
    \E k \in StatusKeys, p \in Payloads :
        /\ Returned(t, k, V(p))
        /\ parseInt(k) \notin tasks[t].route.response

\* C3: on a controlled route, when the status code of the resolver's result
\* has no entry in the route's response map (or there is no map), the
\* configuration error goes to next, no status is set and nothing is sent.
C3_MissingSchemaGoesToNext ==
    \A t \in Tasks :
        Undeclared(t) =>
            /\ tasks[t].pc = "done"
            /\ tasks[t].nextCalls = <<ConfigurationError>>
            /\ tasks[t].statusCode = NoStatus
            /\ tasks[t].sent = NoBody
            /\ {"response", "status", "send"} \cap Events(t) = {}

C3_Witness ==
    \E t \in Tasks :
        /\ Undeclared(t)
        /\ tasks[t].route.response = {200}
        /\ tasks[t].nextCalls = <<ConfigurationError>>

\* The exceptions of the guard, the request validators, the resolver and the
\* response validator.
CallerErrors == {Err(x) : x \in {"guard", "resolver", "response"} \cup Fields}

NoRepeats(seq) == \A i, j \in DOMAIN seq : seq[i] = seq[j] => i = j

\* C4: an exception or rejection of the guard, a request validator, the
\* resolver or the response validator goes to next exactly once; the handler
\* then sets no status and sends nothing, and no stage runs twice.
C4_ExceptionsReachNextOnce ==
    \A t \in Tasks :
        (\E i \in DOMAIN tasks[t].thrown : tasks[t].thrown[i] \in CallerErrors) =>
            /\ tasks[t].pc = "done"
            /\ Len(tasks[t].thrown) = 1
            /\ tasks[t].nextCalls = tasks[t].thrown
            /\ tasks[t].statusCode = NoStatus
            /\ tasks[t].sent = NoBody
            /\ {"status", "send"} \cap Events(t) = {}
            /\ NoRepeats(tasks[t].trace)
            /\ tasks[t].trace[Len(tasks[t].trace)] = "next"

C4_Witness ==
    \E t \in Tasks :
        /\ tasks[t].thrown = <<Err("response")>>
        /\ tasks[t].route.guard
        /\ tasks[t].nextCalls = <<Err("response")>>

\* C5: on a controlled route, a result with status code s < 400 whose payload
\* fails the response schema of s is answered with status 400, success false,
\* message "Response validation failed.", data null and the formatted error.
C5_FailedResponseBelow400 ==
    \A t \in Tasks : \A k \in StatusKeys, p \in Payloads :
        ( /\ Returned(t, k, V(p))
          /\ parseInt(k) < 400
          /\ parseInt(k) \in tasks[t].route.response
          /\ ~Throws(V(p))
          /\ safeParse(V(p)).success = "false" )
        => /\ tasks[t].pc = "done"
           /\ tasks[t].statusCode = 400
           /\ tasks[t].sent = [success |-> "false",
                               message |-> "Response validation failed.",
                               data |-> Null,
                               error |-> format(safeParse(V(p)).error)]

C5_Witness ==
    \E t \in Tasks :
        /\ Returned(t, "200", V("bad"))
        /\ 200 \in tasks[t].route.response
        /\ tasks[t].statusCode = 400

C7_ScenarioASuccess ==
    \A t \in Tasks : \A k \in StatusKeys, p \in Payloads :
        ( /\ Returned(t, k, V(p))
          /\ ~tasks[t].route.guard
          /\ tasks[t].route.schemas = {}
          /\ parseInt(k) < 400
          /\ parseInt(k) \in tasks[t].route.response
          /\ ~Throws(V(p))
          /\ safeParse(V(p)).success = "true" )
        => /\ tasks[t].pc = "done"
           /\ tasks[t].statusCode = parseInt(k)
           /\ tasks[t].sent = [success |-> "true", message |-> "Success.",
                               data |-> safeParse(V(p)).data, error |-> Null]
           /\ tasks[t].nextCalls = <<>>

C7_Witness ==
    \E t \in Tasks :
        /\ Returned(t, "200", V("a"))
        /\ ~tasks[t].route.guard
        /\ tasks[t].route.schemas = {}
        /\ tasks[t].statusCode = 200
        /\ tasks[t].sent = [success |-> "true", message |-> "Success.",
                            data |-> V("A"), error |-> Null]

\* What the handler did after it called the resolver.
RECURSIVE AfterResolver(_)
AfterResolver(trace) ==
    IF trace = <<>> THEN <<>>
    ELSE IF Head(trace) \in ResolverEvents THEN Tail(trace)
    ELSE AfterResolver(Tail(trace))

\* C8: on an uncontrolled route the resolver is invoked with {ctx, req, res}
\* and the pipeline does nothing more: no response schema is looked up or
\* run, no status is set and no body sent, and no configuration error is
\* raised even without a response map.
C8_UncontrolledHandsOver ==
    \A t \in Tasks :
        (tasks[t].route.uncontrolledResolver /\ Events(t) \cap ResolverEvents # {}) =>
            /\ "resolver(ctx,req)" \notin Events(t)
            /\ tasks[t].statusCode = NoStatus
            /\ tasks[t].sent = NoBody
            /\ tasks[t].resolverReturned = EmptyResult
            /\ AfterResolver(tasks[t].trace) \in {<<>>, <<"next">>}
            /\ tasks[t].thrown \in {<<>>, <<Err("resolver")>>}
            /\ tasks[t].nextCalls = tasks[t].thrown

C8_Witness ==
    \E t \in Tasks :
        /\ tasks[t].route.uncontrolledResolver
        /\ tasks[t].route.response = {}
        /\ tasks[t].pc = "done"
        /\ tasks[t].trace[Len(tasks[t].trace)] = "resolver(ctx,req,res)"

\* C9: the scratch context is created fresh for each request and is that
\* request's alone: a request never starts on a context that holds what the
\* handling of another request wrote.
C9_FreshContextPerRequest ==
    [][\A t \in Tasks :
          (tasks[t].pc = "idle" /\ tasks'[t].pc # "idle") => context = InitContext]_vars

\* The ctx of the claim: the seed with the parsed data of the request's own
\* configured fields, undefined for a field without schema.
OwnCtx(t) ==
    [seed |-> tasks[t].route.context,
     params |-> IF "params" \in tasks[t].route.schemas
                THEN OwnValidation(t, "params").data ELSE Undefined,
     query |-> IF "query" \in tasks[t].route.schemas
               THEN OwnValidation(t, "query").data ELSE Undefined,
     body |-> IF "body" \in tasks[t].route.schemas
              THEN OwnValidation(t, "body").data ELSE Undefined]

\* C10: whenever the resolver is invoked, its ctx is the route's seed merged
\* with {params, query, body}: the parsed data of this request's field where
\* a schema is configured, undefined where none is, after any earlier requests.
C10_ResolverCtxIsOwn ==
    \A t \in Tasks :
        Events(t) \cap ResolverEvents # {} => tasks[t].ctx = OwnCtx(t)

\* The place of a call in the order of the stages.
Rank(e) ==
    CASE e = "guard" -> 1
      [] e = "params" -> 2
      [] e = "query" -> 3
      [] e = "body" -> 4
      [] e \in ResolverEvents -> 5
      [] e = "response" -> 6
      [] e = "status" -> 7
      [] e = "send" -> 8
      [] e = "next" -> 9

InStageOrder(trace) ==
    \A i, j \in DOMAIN trace : i < j => Rank(trace[i]) < Rank(trace[j])

\* C11: within one request the stages run in the order guard, request
\* validation, resolver, resolver validation, send response, each at most
\* once: the resolver is invoked only after the guard passed or was skipped
\* and every configured validator ran and succeeded, the response validator
\* only once the resolver's result is there, and the envelope is sent last.
C11_StagesInOrder ==
    \A t \in Tasks :
        /\ InStageOrder(tasks[t].trace)
        /\ Events(t) \cap ResolverEvents # {} =>
              /\ tasks[t].route.guard =>
                    ("guard" \in Events(t) /\ tasks[t].guardReturned.pass = "true")
              /\ \A f \in tasks[t].route.schemas :
                    f \in Events(t) /\ OwnValidation(t, f).success = "true"
        /\ (Events(t) \cap Fields # {} /\ tasks[t].route.guard) =>
              tasks[t].guardReturned.pass = "true"
        /\ "response" \in Events(t) =>
              /\ "resolver(ctx,req)" \in Events(t)
              /\ tasks[t].resolverReturned # EmptyResult
        /\ "send" \in Events(t) =>
              /\ tasks[t].pc = "done"
              /\ tasks[t].trace[Len(tasks[t].trace)] = "send"
              /\ tasks[t].trace[Len(tasks[t].trace) - 1] = "status"

C11_Witness ==
    \E t \in Tasks :
        tasks[t].trace = <<"guard", "body", "resolver(ctx,req)", "response", "status", "send">>

\* C12: a request on a controlled route ends in exactly one outcome: the
\* status is set once and then one body {success, message, data, error} is
\* sent, or next is called once; never both, and never neither once it is over.
C12_OneTerminalOutcome ==
    \A t \in Tasks :
        ~tasks[t].route.uncontrolledResolver =>
            /\ tasks[t].pc = "done" =>
                  \/ /\ tasks[t].sent # NoBody
                     /\ DOMAIN tasks[t].sent = {"success", "message", "data", "error"}
                     /\ tasks[t].statusCode \in StatusCodes \cup {401}
                     /\ tasks[t].nextCalls = <<>>
                     /\ "next" \notin Events(t)
                  \/ /\ tasks[t].sent = NoBody
                     /\ "send" \notin Events(t)
                     /\ Len(tasks[t].nextCalls) = 1
            /\ tasks[t].pc # "done" =>
                  /\ tasks[t].sent = NoBody
                  /\ tasks[t].statusCode = NoStatus
                  /\ tasks[t].nextCalls = <<>>
            /\ NoRepeats(tasks[t].trace)
            /\ "send" \in Events(t) <=> tasks[t].sent # NoBody
            /\ "send" \in Events(t) =>
                  (InStageOrder(tasks[t].trace) /\ "status" \in Events(t))
            /\ "next" \in Events(t) <=> tasks[t].nextCalls # <<>>

C12_Witness ==
    \E t, u \in Tasks :
        /\ ~tasks[t].route.uncontrolledResolver
        /\ tasks[t].pc = "done"
        /\ tasks[t].nextCalls = <<ConfigurationError>>
        /\ tasks[u].pc = "resolver"

\* The first call of a request that goes from the guard stage to request
\* validation: the validator of the first configured field, or the resolver.
FirstAfterGuard(route) ==
    IF "params" \in route.schemas THEN {"params"}
    ELSE IF "query" \in route.schemas THEN {"query"}
    ELSE IF "body" \in route.schemas THEN {"body"}
    ELSE ResolverEvents

\* C13: on a route without guard the guard stage invokes nothing and does
\* not suspend; the request goes on to request validation and never ends in
\* the 401 Unauthorized envelope.
C13_NoGuardSkips ==
    \A t \in Tasks :
        (tasks[t].pc # "idle" /\ ~tasks[t].route.guard) =>
            /\ "guard" \notin Events(t)
            /\ tasks[t].pc # "guard"
            /\ tasks[t].trace # <<>>
            /\ tasks[t].trace[1] \in FirstAfterGuard(tasks[t].route)
            /\ tasks[t].statusCode # 401
            /\ tasks[t].sent # NoBody => tasks[t].sent.message # "Unauthorized."

C13_Witness ==
    \E t \in Tasks :
        /\ ~tasks[t].route.guard
        /\ tasks[t].route.schemas = {"query", "body"}
        /\ tasks[t].statusCode = 400
        /\ tasks[t].trace = <<"query", "body", "status", "send">>

\* C14: in every envelope the handler sends, data is null whenever success
\* is false and error is null whenever success is true; data is other than
\* null only in an envelope made of a response validation that succeeded.
C14_DataAndErrorExclusive ==
    \A t \in Tasks :
        tasks[t].sent # NoBody =>
            /\ tasks[t].sent.success \in {"true", "false"}
            /\ tasks[t].sent.success = "false" => tasks[t].sent.data = Null
            /\ tasks[t].sent.success = "true" => tasks[t].sent.error = Null
            /\ tasks[t].sent.data # Null =>
                  /\ tasks[t].sent.message \in {"Success.", "Failed."}
                  /\ context.resolverValidation.success = "true"
                  /\ tasks[t].sent.data = context.resolverValidation.data

C14_Witness ==
    \E t \in Tasks :
        /\ tasks[t].statusCode = 404
        /\ tasks[t].sent = [success |-> "true", message |-> "Failed.",
                            data |-> V("A"), error |-> Null]

\* The same request with the same answers of its guard and resolver, handled
\* by the handler as loaded, with no other request before or beside it: the
\* task as far as the answers the request has got so far carry it.
SoloStart(a) ==
    Pipeline(GuardCall(Machine(InitContext,
        [IdleTask EXCEPT !.route = a.route, !.req = a.req])))

Rejected(a, who) == \E i \in DOMAIN a.thrown : a.thrown[i] = Err(who)

GuardAnswered(a) == "guard" \in {a.trace[i] : i \in DOMAIN a.trace} /\ a.pc # "guard"

ResolverAnswered(a) ==
    /\ {a.trace[i] : i \in DOMAIN a.trace} \cap ResolverEvents # {}
    /\ a.pc # "resolver"

SoloAfterGuard(a) ==
    LET s == SoloStart(a)
    IN IF s.at = "await_guard" /\ GuardAnswered(a)
       THEN Pipeline(GuardSettled(Machine(s.c, Settle(s)),
                                  Rejected(a, "guard"), a.guardReturned))
       ELSE s

SoloAfterResolver(a) ==
    LET s == SoloAfterGuard(a)
    IN IF s.at = "await_resolver" /\ ResolverAnswered(a)
       THEN Pipeline(ResolverSettled(
                [Machine(s.c, Settle(s)) EXCEPT
                    !.currentStep = steps.S003.name,
                    !.prevStep = steps.S003.name],
                Rejected(a, "resolver"), a.resolverReturned))
       ELSE s

Solo(a) == Settle(SoloAfterResolver(a))

SameAnswer(a, b) == a.statusCode = b.statusCode /\ a.sent = b.sent

\* C15: with deterministic guard, validators and resolver, a request gets
\* the same status code and the same envelope however often it is sent and
\* whatever requests were handled before it: the answer of a finished request
\* is the answer the handler gives to it as the first request ever.
C15_SameRequestSameAnswer ==
    \A t \in Tasks :
        (tasks[t].pc = "done" /\ \A u \in Tasks \ {t} : tasks[u].pc = "idle")
            => SameAnswer(tasks[t], Solo(tasks[t]))

\* C16: of two requests in flight together, in every interleaving of their
\* steps, each gets the resolver ctx, the status code and the envelope it
\* gets as the only request ever handled.
C16_InFlightIsolation ==
    \A t \in Tasks :
        (tasks[t].pc # "idle" /\ \E u \in Tasks \ {t} : tasks[u].pc # "idle")
            => /\ SameAnswer(tasks[t], Solo(tasks[t]))
               /\ tasks[t].ctx = Solo(tasks[t]).ctx
               /\ tasks[t].pc = Solo(tasks[t]).pc

\* C17: a request whose guard returns a pass that is not truthy (false, or
\* another falsy value) is answered with the 401 envelope of its own guard
\* result, and no request gets an envelope of a resolver result unless its
\* own resolver was invoked.
C17_FalsyGuardSends401 ==
    \A t \in Tasks :
        /\ ( /\ GuardAnswered(tasks[t])
             /\ ~Rejected(tasks[t], "guard")
             /\ tasks[t].guardReturned.pass # "true" )
           => /\ tasks[t].pc = "done"
              /\ tasks[t].statusCode = 401
              /\ tasks[t].sent = [success |-> "false", message |-> "Unauthorized.",
                                  data |-> Null,
                                  error |-> tasks[t].guardReturned.response]
        /\ (tasks[t].sent # NoBody /\ Events(t) \cap ResolverEvents = {})
           => tasks[t].sent.message \in {"Unauthorized.", "Validation Failed."}

\* C18: on a controlled route, a result with status code s >= 400 whose
\* payload fails the response schema of s is answered with status s, success
\* false, the message "Success." left as it was, data null and the formatted
\* error.
C18_FailedResponseFrom400 ==
    \A t \in Tasks : \A k \in StatusKeys, p \in Payloads :
        ( /\ Returned(t, k, V(p))
          /\ parseInt(k) >= 400
          /\ parseInt(k) \in tasks[t].route.response
          /\ ~Throws(V(p))
          /\ safeParse(V(p)).success = "false" )
        => /\ tasks[t].pc = "done"
           /\ tasks[t].statusCode = parseInt(k)
           /\ tasks[t].sent = [success |-> "false", message |-> "Success.",
                               data |-> Null,
                               error |-> format(safeParse(V(p)).error)]
           /\ tasks[t].nextCalls = <<>>

C18_Witness ==
    \E t \in Tasks :
        /\ Returned(t, "404", V("bad"))
        /\ 404 \in tasks[t].route.response
        /\ tasks[t].statusCode = 404
        /\ tasks[t].sent = [success |-> "false", message |-> "Success.",
                            data |-> Null, error |-> format([zod |-> V("bad")])]

\* The request reached request validation and none of its configured
\* validators throws.
Validated(t) ==
    /\ PastGuard(t)
    /\ \A f \in tasks[t].route.schemas : ~Throws(tasks[t].req[f])

AllConfiguredSucceeded(t) ==
    \A f \in tasks[t].route.schemas : OwnValidation(t, f).success = "true"

\* C19: request validation runs exactly the configured validators, each once
\* and all of them even after a failure; it passes, and the resolver is
\* invoked, exactly when every configured validator succeeded, and a field
\* without schema never makes the answer a 400 "Validation Failed.".
C19_OnlyConfiguredValidatorsDecide ==
    \A t \in Tasks :
        Validated(t) =>
            /\ Events(t) \cap Fields = tasks[t].route.schemas
            /\ NoRepeats(tasks[t].trace)
            /\ AllConfiguredSucceeded(t) <=> Events(t) \cap ResolverEvents # {}
            /\ AllConfiguredSucceeded(t) =>
                  ~(tasks[t].statusCode = 400 /\ Events(t) \cap ResolverEvents = {})

\* C20: on an uncontrolled route the earlier stages are not bypassed: the
\* resolver is invoked only after the guard passed (or there is none) and
\* every configured validator succeeded; a guard answering pass = false is
\* answered with the 401 envelope and a failed request validation with the
\* 400 "Validation Failed." envelope, the resolver not invoked in either case.
C20_UncontrolledKeepsStages ==
    \A t \in Tasks :
        tasks[t].route.uncontrolledResolver =>
            /\ Events(t) \cap ResolverEvents # {} =>
                  /\ PastGuard(t)
                  /\ tasks[t].route.guard => tasks[t].trace[1] = "guard"
                  /\ Events(t) \cap Fields = tasks[t].route.schemas
                  /\ AllConfiguredSucceeded(t)
            /\ (GuardAnswered(tasks[t]) /\ tasks[t].guardReturned.pass = "false") =>
                  /\ tasks[t].statusCode = 401
                  /\ tasks[t].sent = [success |-> "false", message |-> "Unauthorized.",
                                      data |-> Null,
                                      error |-> tasks[t].guardReturned.response]
                  /\ Events(t) \cap (ResolverEvents \cup Fields) = {}
            /\ (Validated(t) /\ ~AllConfiguredSucceeded(t)) =>
                  /\ tasks[t].pc = "done"
                  /\ tasks[t].statusCode = 400
                  /\ [f \in {"success", "message", "data"} |-> tasks[t].sent[f]]
                        = [success |-> "false", message |-> "Validation Failed.",
                           data |-> Null]
                  /\ \A f \in tasks[t].route.schemas :
                        tasks[t].sent.error[f] = OwnFieldError(t, f)
                  /\ Events(t) \cap ResolverEvents = {}
                  /\ tasks[t].nextCalls = <<>>

C20_Witness ==
    \E t \in Tasks :
        /\ tasks[t].route.uncontrolledResolver
        /\ tasks[t].route.guard
        /\ tasks[t].guardReturned.pass = "true"
        /\ tasks[t].req.params = V("bad")
        /\ tasks[t].trace = <<"guard", "params", "status", "send">>
        /\ tasks[t].statusCode = 400

InFlight(t) == tasks[t].pc \in {"guard", "resolver"}

\* The request is over with an outcome: an envelope sent, an error given to
\* next, or the uncontrolled resolver returned.
Terminal(t) ==
    /\ tasks[t].pc = "done"
    /\ \/ tasks[t].sent # NoBody
       \/ tasks[t].nextCalls # <<>>
       \/ /\ tasks[t].route.uncontrolledResolver
          /\ tasks[t].trace[Len(tasks[t].trace)] = "resolver(ctx,req,res)"

\* C21: a request whose own guard and own resolver settle whenever they are
\* awaited reaches a terminal outcome, whether or not the guard or resolver
\* of another request ever settles.
C21_SettlingRequestsTerminate ==
    \A t \in Tasks :
        (WF_vars(GuardSettlesSomehow(t)) /\ WF_vars(ResolverSettlesSomehow(t)))
            => (InFlight(t) ~> Terminal(t))

C21_Witness ==
    \E t, u \in Tasks :
        /\ tasks[u].pc = "guard"
        /\ u < t
        /\ Terminal(t)
        /\ "resolver(ctx,req)" \in Events(t)
        /\ tasks[t].statusCode = 200

====
